---------------------------- MODULE Spec2Model ----------------------------
(***************************************************************************)
(* fullscreen4wikicommons: the category lister (ImageLoaderWorker) and the *)
(* viewer (WikimediaImageViewer) of src/main.py, with the Qt event loop of *)
(* the interactive thread and the worker thread as processes.              *)
(*                                                                         *)
(* Strings are sequences of code points, so that startswith, endswith,     *)
(* lower, strip, int() and sorted() are computed as Python computes them.  *)
(***************************************************************************)
EXTENDS Integers, Sequences, FiniteSets, TLC

VARIABLES backend, viewer, workers, posted, mstack, hist, meta

vars == <<backend, viewer, workers, posted, mstack, hist, meta>>

-----------------------------------------------------------------------------
(* Bounds of the model *)

\* listing requests (workers) one behaviour may start
MaxLoads == 2
\* handler activations that may be open at once on the interactive thread
MaxNest == 2
\* largest depth get_commons_files is called with in ListSpec
MaxDepth == 2

-----------------------------------------------------------------------------
(* Strings *)

PFile     == <<70, 105, 108, 101, 58>>                      \* "File:"
PCategory == <<67, 97, 116, 101, 103, 111, 114, 121, 58>>   \* "Category:"

ExtJpg  == <<46, 106, 112, 103>>
ExtJpeg == <<46, 106, 112, 101, 103>>
ExtPng  == <<46, 112, 110, 103>>
ExtGif  == <<46, 103, 105, 102>>
ExtSvg  == <<46, 115, 118, 103>>
ExtWebp == <<46, 119, 101, 98, 112>>
ExtTiff == <<46, 116, 105, 102, 102>>
ExtTif  == <<46, 116, 105, 102>>
ExtBmp  == <<46, 98, 109, 112>>
ExtIco  == <<46, 105, 99, 111>>

\* the tuple given to endswith in get_commons_files
ImageExts == {ExtJpg, ExtJpeg, ExtPng, ExtGif, ExtSvg, ExtWebp, ExtTiff,
              ExtTif, ExtBmp, ExtIco}

NsFile   == 6
NsSubcat == 14

\* str.lower on one code point (ASCII range of the titles used here)
LowerChar(c) == IF c >= 65 /\ c <= 90 THEN c + 32 ELSE c

Lower(s) == [i \in 1..Len(s) |-> LowerChar(s[i])]

StartsWith(s, p) == Len(s) >= Len(p) /\ SubSeq(s, 1, Len(p)) = p

EndsWith(s, p) ==
    Len(s) >= Len(p) /\ SubSeq(s, Len(s) - Len(p) + 1, Len(s)) = p

\* Python's order on str: lexicographic by code point
StrLess(a, b) ==
    \E k \in 1..(Len(a) + 1) :
        /\ k <= Len(b)
        /\ \A j \in 1..(k - 1) : a[j] = b[j]
        /\ (k = Len(a) + 1 \/ a[k] < b[k])

SeqSet(s) == {s[i] : i \in 1..Len(s)}

RECURSIVE Ascending(_)
Ascending(S) ==
    IF S = {} THEN <<>>
    ELSE LET m == CHOOSE x \in S : \A y \in S : x = y \/ StrLess(x, y)
         IN  <<m>> \o Ascending(S \ {m})

RECURSIVE Descending(_)
Descending(S) ==
    IF S = {} THEN <<>>
    ELSE LET m == CHOOSE x \in S : \A y \in S : x = y \/ StrLess(y, x)
         IN  <<m>> \o Descending(S \ {m})

\* list(set(files)): the elements once each, in the iteration order of the
\* set.  The order follows the string hashes and is not fixed by the
\* language: seed chooses it.
SetOrders == {0, 1}

ListOfSetKeepDup(files, seed) == files

ListOfSet(files, seed) ==
    IF seed = 0 THEN Ascending(SeqSet(files)) ELSE Descending(SeqSet(files))

\* sorted(list(set(image_files)))
SortedUnsorted(files) == files

RECURSIVE DedupInOrder(_)
DedupInOrder(files) ==
    IF files = <<>> THEN <<>>
    ELSE LET r == DedupInOrder(SubSeq(files, 1, Len(files) - 1))
             x == files[Len(files)]
         IN  IF x \in SeqSet(r) THEN r ELSE Append(r, x)

SortedOfSet(files) == Ascending(SeqSet(files))

-----------------------------------------------------------------------------
(* The backend: category membership listings, by continuation page *)

FileA == PFile \o <<65>> \o ExtJpg                \* "File:A.jpg"
FileB == PFile \o <<66, 46, 74, 80, 71>>          \* "File:B.JPG"
FileC == PFile \o <<67>> \o ExtPng                \* "File:C.png"
FileD == PFile \o <<68, 46, 116, 120, 116>>       \* "File:D.txt"

NameX == <<88>>                                   \* "X"
NameY == <<89>>                                   \* "Y"
NameZ == <<90>>                                   \* "Z", no such category
CatX  == PCategory \o NameX
CatY  == PCategory \o NameY

F(t) == [ns |-> NsFile, title |-> t]
S(t) == [ns |-> NsSubcat, title |-> t]

BackendIds == 1..3

\* the backends get_commons_files is run on alone: backend 4 has a
\* subcategory whose title ends like an image file
ListBackends == 1..4

\* the pages the categorymembers query returns for cmtitle = cat
Pages(b, cat) ==
    CASE b = 1 /\ cat = CatX -> << <<F(FileA), F(FileB)>>, <<F(FileB), S(CatY)>> >>
      [] b = 1 /\ cat = CatY -> << <<F(FileA), F(FileD), S(CatX)>> >>
      [] b = 2 /\ cat = CatX -> << <<S(CatY), F(FileD)>> >>
      [] b = 2 /\ cat = CatY -> << <<>> >>
      [] b = 3 /\ cat = CatX -> << <<F(FileC)>>, <<F(FileA)>> >>
      [] b = 3 /\ cat = CatY -> << <<F(FileC)>> >>
      \* "Category:Q.png", "File:D.txt", "File:B.JPG"
      [] b = 4 /\ cat = CatX -> << <<S(PCategory \o <<81>> \o ExtPng),
                                     F(FileD), F(FileB)>> >>
      [] OTHER -> << <<>> >>

\* the members of all pages in one sequence
RECURSIVE Flat(_)
Flat(pages) == IF pages = <<>> THEN <<>> ELSE Head(pages) \o Flat(Tail(pages))

\* the backend that holds what backend b holds and answers every query in
\* one page
Unpaged(b) == 0 - b

PagesOf(b, cat) == IF b > 0 THEN Pages(b, cat) ELSE <<Flat(Pages(0 - b, cat))>>

\* requests.get(url, params).json() for params = {cmtitle: cat, cmcontinue:
\* cont}; cont = <<>> is a request without continuation parameters
Response(b, cat, cont) ==
    LET k == IF cont = <<>> THEN 1 ELSE cont[1]
        p == PagesOf(b, cat)
    IN  [categorymembers |-> p[k],
         continue |-> IF k < Len(p) THEN <<k + 1>> ELSE <<>>]

-----------------------------------------------------------------------------
(* ImageLoaderWorker.get_commons_files *)

\* the activation of get_commons_files(category_name, depth) at its first
\* requests.get
Frame(category_name, depth) ==
    [cmtitle |-> IF StartsWith(category_name, PCategory) THEN category_name
                 ELSE PCategory \o category_name,
     depth |-> depth,
     cont |-> <<>>,          \* continuation parameters merged into params
     resp_continue |-> <<>>, \* response["continue"], <<>> when absent
     rest |-> <<>>,          \* members of the response not yet visited
     files |-> <<>>]

\* the depth of the recursive call for a subcategory member
ChildDepthSame(depth) == depth

ChildDepth(depth) == depth - 1

\* the test on a file member's title
AcceptsCaseSensitive(title) == \E e \in ImageExts : EndsWith(title, e)

Accepts(title) == \E e \in ImageExts : EndsWith(Lower(title), e)

\* the continuation parameters of the next request
NextCont(f) == f.resp_continue

\* lines 64-65: params.update(response["continue"]) and round the loop again
NextPageDropsFiles(f) ==
    [f EXCEPT !.cont = NextCont(f), !.resp_continue = <<>>, !.files = <<>>]

NextPage(f) == [f EXCEPT !.cont = NextCont(f), !.resp_continue = <<>>]

\* Runs the call stack from the top frame's member loop up to the next
\* requests.get, or to the return of the outermost call.  Go is applied to
\* the value of the argument (stack \in {stack0}), which is computed once.
RECURSIVE Proceed(_, _)
Proceed(stack0, seed) ==
    LET Go(stack) ==
            LET n == Len(stack)
                f == stack[n]
                below == SubSeq(stack, 1, n - 1)
            IN  IF f.rest # <<>>
                THEN LET m == Head(f.rest)
                         g == [f EXCEPT !.rest = Tail(f.rest)]
                     IN  IF m.ns = NsFile
                         THEN IF Accepts(m.title)
                              THEN Proceed(below \o <<[g EXCEPT !.files = Append(@, m.title)]>>, seed)
                              ELSE Proceed(below \o <<g>>, seed)
                         ELSE IF m.ns = NsSubcat /\ f.depth > 0
                              THEN [stack |-> below \o <<g, Frame(m.title, ChildDepth(f.depth))>>,
                                    done |-> FALSE, ret |-> <<>>]
                              ELSE Proceed(below \o <<g>>, seed)
                ELSE IF f.resp_continue # <<>>
                     THEN [stack |-> below \o <<NextPage(f)>>,
                           done |-> FALSE, ret |-> <<>>]
                     ELSE LET r == ListOfSet(f.files, seed)
                          IN  IF n = 1
                              THEN [stack |-> <<>>, done |-> TRUE, ret |-> r]
                              ELSE Proceed(SubSeq(stack, 1, n - 2)
                                           \o <<[stack[n - 1] EXCEPT !.files = @ \o r]>>, seed)
    IN  CHOOSE r \in {Go(stack) : stack \in {stack0}} : TRUE

\* One requests.get of the top activation and what follows it up to the next
FetchStep(stack, b, seed) ==
    LET n == Len(stack)
        f == stack[n]
        resp == Response(b, f.cmtitle, f.cont)
    IN  Proceed(SubSeq(stack, 1, n - 1)
                \o <<[f EXCEPT !.rest = resp.categorymembers,
                               !.resp_continue = resp.continue]>>, seed)


-----------------------------------------------------------------------------
(* State *)

NoWorker == 0

WorkerIds == 1..MaxLoads

\* the depth run() passes to get_commons_files
RunDepth == 1

\* an ImageLoaderWorker with its QThread.  st is the position of run():
\* "none" not created, "r0" at the first test of _is_running, "r1" at the
\* second, "fetch" at a requests.get of get_commons_files, "done" returned.
\* connected: the slot connections of the worker's signals are in place.
\* quit: QThread.quit() has been called.
NoWorkerRec ==
    [st |-> "none", is_running |-> FALSE, connected |-> FALSE, quit |-> FALSE,
     category_name |-> <<>>, depth |-> 0, stack |-> <<>>, ret |-> <<>>]

\* a worker whose thread has finished: deleteLater has destroyed both
DeletedRec == [NoWorkerRec EXCEPT !.st = "deleted", !.quit = TRUE]

\* ImageLoaderWorker.__init__ and QThread.start()
NewWorker(category_name) ==
    [st |-> "r0", is_running |-> TRUE, connected |-> TRUE, quit |-> FALSE,
     category_name |-> category_name, depth |-> RunDepth, stack |-> <<>>,
     ret |-> <<>>]

\* QThread.isRunning(): the thread runs until run() has returned and its
\* event loop was told to quit
IsRunning(wr) == wr.st \in {"r0", "r1", "fetch"} \/ (wr.st = "done" /\ ~wr.quit)

Executing(wr) == wr.st \in {"r0", "r1", "fetch"}

\* what the web view shows
Welcome == [kind |-> "welcome", name |-> <<>>, index |-> 0, total |-> 0]
CategoryErrorPage == [kind |-> "category_error", name |-> <<>>, index |-> 0, total |-> 0]

\* WikimediaImageViewer.__init__ and init_ui
InitViewer ==
    [current_category |-> <<>>, image_files |-> <<>>, current_index |-> 0,
     worker |-> NoWorker, worker_thread |-> NoWorker,
     loading_dialog |-> FALSE,
     load_enabled |-> TRUE,      \* load_button and category_input
     nav_enabled |-> FALSE,      \* prev_button and next_button
     web |-> Welcome,
     crashed |-> FALSE,          \* a slot raised an exception nobody caught
     closed |-> FALSE]           \* closeEvent has run: the window is closed

\* History of one listing request, kept for the properties only: "none",
\* "cancelled" once cancel_loading has run before the request's terminal
\* handler, "finished" or "error" once on_images_loaded or on_loading_error
\* has run for it.  It is forgotten ("none") when the worker is destroyed and
\* no emission of it is left in the queue.
NoHist == "none"

Cur == [viewer |-> viewer, workers |-> workers, posted |-> posted,
        mstack |-> mstack, hist |-> hist]

Set(T) ==
    /\ viewer' = T.viewer
    /\ workers' = T.workers
    /\ posted' = T.posted
    /\ mstack' = T.mstack
    /\ hist' = [w \in WorkerIds |->
                  IF /\ T.workers[w].st = "deleted"
                     /\ \A i \in 1..Len(T.posted) : T.posted[i].w # w
                  THEN NoHist ELSE T.hist[w]]
    /\ UNCHANGED <<backend, meta>>

\* no display's metadata lookup is followed
NoMeta == [pc |-> "none"]

Init ==
    /\ backend \in BackendIds
    /\ meta = NoMeta
    /\ viewer = InitViewer
    /\ workers = [w \in WorkerIds |-> NoWorkerRec]
    /\ posted = <<>>
    /\ mstack = <<>>
    /\ hist = [w \in WorkerIds |-> NoHist]

Created == Cardinality({w \in WorkerIds : workers[w].st # "none"})

-----------------------------------------------------------------------------
(* ImageLoaderWorker.run, on the worker thread *)

\* signal.emit(arg): one posted event per connected slot, in connection order
\* (the receiver lives on the interactive thread, so the call is queued)
Emit(T, w, sig, slots, arg) ==
    IF T.workers[w].connected
    THEN [T EXCEPT !.posted = @ \o [i \in 1..Len(slots) |->
                                     [w |-> w, sig |-> sig, slot |-> slots[i], arg |-> arg]]]
    ELSE T

EmitProgress(T, w, msg) ==
    Emit(T, w, "progress", <<"on_loading_progress">>, msg)

EmitFinished(T, w, files) ==
    Emit(T, w, "finished", <<"on_images_loaded", "cleanup_thread">>, files)

EmitError(T, w, msg) ==
    Emit(T, w, "error", <<"on_loading_error", "cleanup_thread">>, msg)

\* QThread.finished is connected to cleanup_thread as well (line 526).  The
\* thread finishes only after quit(), which only cleanup_thread calls, inside
\* QThread.wait() and before worker_thread.disconnect() (line 598): that
\* emission never reaches the slot and is not posted here.

\* lines 82-85
WorkerRun0(w) ==
    /\ workers[w].st = "r0"
    /\ IF ~workers[w].is_running
       THEN Set([Cur EXCEPT !.workers[w].st = "done"])
       ELSE Set([EmitProgress(Cur, w, "Initializing") EXCEPT !.workers[w].st = "r1"])

\* lines 87-92, up to the first requests.get
WorkerRun1(w) ==
    /\ workers[w].st = "r1"
    /\ IF ~workers[w].is_running
       THEN Set([Cur EXCEPT !.workers[w].st = "done"])
       ELSE Set([EmitProgress(Cur, w, "Loading category") EXCEPT
                   !.workers[w].st = "fetch",
                   !.workers[w].stack = <<Frame(workers[w].category_name,
                                                workers[w].depth)>>])

\* lines 163-167: what run() does with the list get_commons_files returned
RunEpilogueProgressLast(T, w, ret) ==
    LET image_files == SortedOfSet(ret)
        T1 == EmitFinished(T, w, image_files)
        T2 == EmitProgress(T1, w, "Successfully loaded")
    IN  [T2 EXCEPT !.workers[w].st = "done", !.workers[w].stack = <<>>]

RunEpilogue(T, w, ret) ==
    LET image_files == SortedOfSet(ret)
        T1 == EmitProgress(T, w, "Successfully loaded")
        T2 == EmitFinished(T1, w, image_files)
    IN  [T2 EXCEPT !.workers[w].st = "done", !.workers[w].stack = <<>>]

\* the titles the open activations of get_commons_files have gathered
RECURSIVE Gathered(_)
Gathered(stack) ==
    IF stack = <<>> THEN <<>> ELSE Gathered(Tail(stack)) \o Head(stack).files

\* lines 169-176: the except clauses of run().  The activations are left as
\* the exception found them: nothing reads them any more.
RunExceptEmitsPartial(T, w, exc) ==
    LET T1 == IF T.workers[w].is_running
              THEN EmitFinished(EmitError(T, w, "Error loading category"), w,
                                SortedOfSet(Gathered(T.workers[w].stack)))
              ELSE T
    IN  [T1 EXCEPT !.workers[w].st = "done"]

RunExceptEmitsTwice(T, w, exc) ==
    LET T1 == IF T.workers[w].is_running
              THEN EmitError(EmitError(T, w, "Network error"), w, "Network error")
              ELSE T
    IN  [T1 EXCEPT !.workers[w].st = "done"]

RunExcept(T, w, exc) ==
    LET T1 == IF T.workers[w].is_running
              THEN EmitError(T, w, IF exc = "RequestException" THEN "Network error"
                                   ELSE "Error loading category")
              ELSE T
    IN  [T1 EXCEPT !.workers[w].st = "done"]

\* One requests.get of get_commons_files (line 51) inside run(): it answers
\* or raises; the code that follows runs up to the next request.
WorkerFetch(w) ==
    /\ workers[w].st = "fetch"
    /\ \E outcome \in {"ok", "RequestException", "Exception"}, seed \in SetOrders :
        IF outcome = "ok"
        THEN LET r == FetchStep(workers[w].stack, backend, seed)
             IN  IF r.done THEN Set(RunEpilogue(Cur, w, r.ret))
                 ELSE Set([Cur EXCEPT !.workers[w].stack = r.stack])
        ELSE Set(RunExcept(Cur, w, outcome))

-----------------------------------------------------------------------------
(* get_commons_files alone: ListSpec *)

\* get_commons_files(category_name, depth) run to its return on backend b
RECURSIVE ListingFrom(_, _)
ListingFrom(stack, b) ==
    LET r == FetchStep(stack, b, 0)
    IN  IF r.done THEN r.ret ELSE ListingFrom(r.stack, b)

Listing(category_name, depth, b) == ListingFrom(<<Frame(category_name, depth)>>, b)

ListCats == {NameX, CatX, NameY, CatY, NameZ}

ListInit ==
    /\ backend \in ListBackends
    /\ meta = NoMeta
    /\ viewer = InitViewer
    /\ posted = <<>>
    /\ mstack = <<>>
    /\ hist = [w \in WorkerIds |-> NoHist]
    /\ \E c \in ListCats, d \in 0..MaxDepth :
         workers = [w \in WorkerIds |->
                      IF w = 1
                      THEN [NewWorker(c) EXCEPT !.st = "fetch", !.depth = d,
                                                !.stack = <<Frame(c, d)>>]
                      ELSE NoWorkerRec]

\* one request of get_commons_files(category_name, depth) and the code up to
\* the next one, or to the return of the list
ListFetch ==
    /\ workers[1].st = "fetch"
    /\ \E seed \in SetOrders :
         LET r == FetchStep(workers[1].stack, backend, seed)
         IN  workers' = [workers EXCEPT ![1].stack = r.stack,
                                        ![1].ret = r.ret,
                                        ![1].st = IF r.done THEN "returned" ELSE "fetch"]
    /\ UNCHANGED <<backend, viewer, posted, mstack, hist, meta>>

ListNext == ListFetch

ListSpec == ListInit /\ [][ListNext]_vars /\ WF_vars(ListNext)


-----------------------------------------------------------------------------
(* WikimediaImageViewer: the handlers, as functions of the state *)

\* The interactive thread's open handler activations, innermost last.  A
\* frame is a handler stopped where it hands control away: pc "processEvents"
\* in display_current_image (line 631), "exec" in a QMessageBox, "wait" in
\* QThread.wait() (line 597).  h names the method the frame belongs to.
Push(T, fr) == [T EXCEPT !.mstack = Append(@, fr)]

Pop(T) == [T EXCEPT !.mstack = SubSeq(@, 1, Len(@) - 1)]

\* display_current_image up to QApplication.processEvents (lines 625-631)
display_current_image(T) ==
    IF T.viewer.image_files = <<>>
       \/ T.viewer.current_index >= Len(T.viewer.image_files)
    THEN T
    ELSE Push(T, [h |-> "display_current_image", pc |-> "processEvents",
                  image_name |-> T.viewer.image_files[T.viewer.current_index + 1],
                  arg |-> <<>>])

\* display_current_image after processEvents (lines 634-948); info is whether
\* get_image_info returned a record
display_finishResetsCursor(T, image_name, info) ==
    IF info
    THEN [T EXCEPT !.viewer.web = [kind |-> "image", name |-> image_name,
                                   index |-> T.viewer.current_index + 1,
                                   total |-> Len(T.viewer.image_files)]]
    ELSE [T EXCEPT !.viewer.web = [kind |-> "image_error_generic",
                                   name |-> <<>>, index |-> 0, total |-> 0],
                   !.viewer.current_index = 0]

display_finish(T, image_name, info) ==
    LET v == T.viewer
    IN  IF info
        THEN [T EXCEPT !.viewer.web = [kind |-> "image", name |-> image_name,
                                       index |-> v.current_index + 1,
                                       total |-> Len(v.image_files)]]
        ELSE IF v.current_index < Len(v.image_files)
             THEN [T EXCEPT !.viewer.web = [kind |-> "image_error",
                                            name |-> v.image_files[v.current_index + 1],
                                            index |-> 0, total |-> 0]]
             ELSE [T EXCEPT !.viewer.web = [kind |-> "image_error_generic",
                                            name |-> <<>>, index |-> 0, total |-> 0]]

\* on_loading_progress (lines 531-535): dialog label and status bar text
on_loading_progress(T, w) == T

\* on_images_loaded (lines 537-557)
on_images_loaded(T, w, image_files) ==
    LET T1 == [T EXCEPT !.viewer.image_files = image_files,
                        !.viewer.current_index = 0,
                        !.viewer.load_enabled = TRUE,
                        !.viewer.nav_enabled = Len(image_files) > 1,
                        !.viewer.loading_dialog = FALSE,
                        !.hist[w] = "finished"]
    IN  display_current_image(T1)

\* on_loading_error up to QMessageBox.critical (lines 559-572)
on_loading_errorKeepsDisabled(T, w) ==
    Push([T EXCEPT !.hist[w] = "error"],
         [h |-> "on_loading_error", pc |-> "exec", image_name |-> <<>>, arg |-> <<>>])

on_loading_error(T, w) ==
    Push([T EXCEPT !.viewer.load_enabled = TRUE,
                   !.viewer.loading_dialog = FALSE,
                   !.hist[w] = "error"],
         [h |-> "on_loading_error", pc |-> "exec", image_name |-> <<>>, arg |-> <<>>])

\* ImageLoaderWorker.stop
stop(T, w) == [T EXCEPT !.workers[w].is_running = FALSE]

\* cleanup_thread up to QThread.wait (lines 588-596)
cleanup_beginKeepsConnections(T) ==
    LET w == T.viewer.worker
        t == T.viewer.worker_thread
        T1 == IF w # NoWorker
              THEN [stop(T, w) EXCEPT !.viewer.worker = NoWorker]
              ELSE T
    IN  IF t # NoWorker /\ IsRunning(T1.workers[t])
        THEN [T1 EXCEPT !.workers[t].quit = TRUE]
        ELSE T1

cleanup_begin(T) ==
    LET w == T.viewer.worker
        t == T.viewer.worker_thread
        T1 == IF w # NoWorker
              THEN [stop(T, w) EXCEPT !.workers[w].connected = FALSE,
                                      !.viewer.worker = NoWorker]
              ELSE T
    IN  IF t # NoWorker /\ IsRunning(T1.workers[t])
        THEN [T1 EXCEPT !.workers[t].quit = TRUE]
        ELSE T1

\* QThread.wait() returns once run() has returned and the event loop has quit
MustWait(T) ==
    /\ T.viewer.worker_thread # NoWorker
    /\ Executing(T.workers[T.viewer.worker_thread])

\* cleanup_thread after QThread.wait (lines 598-600)
cleanup_endKeepsThread(T) == T

cleanup_end(T) ==
    LET t == T.viewer.worker_thread
    IN  IF t # NoWorker
        THEN [T EXCEPT !.viewer.worker_thread = NoWorker,
                       !.workers[t] = IF @.st = "done" THEN DeletedRec ELSE @]
        ELSE T

\* cancel_loading up to QThread.wait inside cleanup_thread (lines 607-611)
cancel_begin(T) ==
    LET w == T.viewer.worker
        T1 == IF w # NoWorker
              THEN [stop(T, w) EXCEPT !.hist[w] = IF @ = "none" THEN "cancelled" ELSE @]
              ELSE T
    IN  cleanup_begin(T1)

\* cancel_loading after cleanup_thread (lines 613-621)
cancel_end(T) ==
    [T EXCEPT !.viewer.load_enabled = TRUE, !.viewer.loading_dialog = FALSE]

\* start_image_loading (lines 508-529)
start_image_loading(T, category_name) ==
    LET w == 1 + Cardinality({x \in WorkerIds : T.workers[x].st # "none"})
    IN  [T EXCEPT !.workers[w] = NewWorker(category_name),
                  !.viewer.worker = w,
                  !.viewer.worker_thread = w]

\* load_category from "Clear existing content" on (lines 481-506)
load_end(T, category_name) ==
    start_image_loading(
        [T EXCEPT !.viewer.image_files = <<>>,
                  !.viewer.current_index = 0,
                  !.viewer.load_enabled = FALSE,
                  !.viewer.nav_enabled = FALSE,
                  !.viewer.loading_dialog = TRUE,
                  !.viewer.current_category = category_name],
        category_name)

\* str.strip on the blanks of the inputs used here
RECURSIVE LStrip(_)
LStrip(s) == IF s # <<>> /\ Head(s) = 32 THEN LStrip(Tail(s)) ELSE s

RECURSIVE RStrip(_)
RStrip(s) ==
    IF s # <<>> /\ s[Len(s)] = 32 THEN RStrip(SubSeq(s, 1, Len(s) - 1)) ELSE s

StripNothing(s) == s

Strip(s) == RStrip(LStrip(s))

\* the test of line 478
PriorNeverCancelled(T) == FALSE

PriorRunning(T) ==
    /\ T.viewer.worker_thread # NoWorker
    /\ IsRunning(T.workers[T.viewer.worker_thread])

\* what follows a cleanup_thread whose QThread.wait has returned, in the
\* method that called it
AfterCleanup(T, h, arg) ==
    LET T1 == cleanup_end(T)
    IN  CASE h = "cleanup_thread" -> T1
          [] h = "cancel_loading" -> cancel_end(T1)
          [] h = "load_category"  -> load_end(cancel_end(T1), arg)
          [] h = "closeEvent"     -> [cancel_end(T1) EXCEPT !.viewer.closed = TRUE]

\* a method that reaches cleanup_thread: runs on, or stops in QThread.wait
ThroughCleanup(T, h, arg) ==
    IF MustWait(T)
    THEN Push(T, [h |-> h, pc |-> "wait", image_name |-> <<>>, arg |-> arg])
    ELSE AfterCleanup(T, h, arg)

\* load_category (lines 468-506); text is category_input.text()
load_category(T, text) ==
    LET category_name == Strip(text)
    IN  IF category_name = <<>>
        THEN Push(T, [h |-> "load_category", pc |-> "exec",
                      image_name |-> <<>>, arg |-> <<>>])
        ELSE IF PriorRunning(T)
             THEN ThroughCleanup(cancel_begin(T), "load_category", category_name)
             ELSE load_end(T, category_name)

\* cancel_loading (lines 604-621)
cancel_loading(T) == ThroughCleanup(cancel_begin(T), "cancel_loading", <<>>)

\* cleanup_thread (lines 584-602), as a slot
cleanup_thread(T) == ThroughCleanup(cleanup_begin(T), "cleanup_thread", <<>>)

\* closeEvent (lines 980-983)
closeEvent(T) == ThroughCleanup(cancel_begin(T), "closeEvent", <<>>)

\* the index show_previous_image moves to (line 955)
PrevIndexClamped(i, n) == IF i = 0 THEN 0 ELSE i - 1

PrevIndex(i, n) == (i - 1) % n

\* the index show_next_image moves to (line 963)
NextIndexNoWrap(i, n) == i + 1

NextIndex(i, n) == (i + 1) % n

\* show_previous_image (lines 950-956)
show_previous_image(T) ==
    IF Len(T.viewer.image_files) <= 1 THEN T
    ELSE display_current_image(
             [T EXCEPT !.viewer.current_index =
                          PrevIndex(@, Len(T.viewer.image_files))])

\* show_next_image (lines 958-964)
show_next_image(T) ==
    IF Len(T.viewer.image_files) <= 1 THEN T
    ELSE display_current_image(
             [T EXCEPT !.viewer.current_index =
                          NextIndex(@, Len(T.viewer.image_files))])

\* int(s) for the texts the QIntValidator(0, 9999) lets through
IsNumber(s) == s # <<>> /\ \A i \in 1..Len(s) : s[i] >= 48 /\ s[i] <= 57

RECURSIVE ParseInt(_)
ParseInt(s) ==
    IF s = <<>> THEN 0 ELSE 10 * ParseInt(SubSeq(s, 1, Len(s) - 1)) + (s[Len(s)] - 48)

\* show_image_bynumber (lines 966-973); text is gotonumber.text()
show_image_bynumber(T, text) ==
    IF Len(T.viewer.image_files) <= 1 THEN T
    ELSE IF ~IsNumber(Strip(text))
         THEN [T EXCEPT !.viewer.crashed = TRUE]   \* int() raises ValueError
         ELSE display_current_image(
                  [T EXCEPT !.viewer.current_index = ParseInt(Strip(text))])

\* refresh_current_image (lines 975-978)
refresh_current_image(T) ==
    IF T.viewer.image_files # <<>>
    THEN display_current_image(T)
    ELSE T


-----------------------------------------------------------------------------
(* The interactive thread: the Qt event loop *)

Idle == [h |-> "", pc |-> "idle", image_name |-> <<>>, arg |-> <<>>]

Top == IF mstack = <<>> THEN Idle ELSE mstack[Len(mstack)]

\* the event loop is taking events: at top level, or inside processEvents or
\* a message box's exec of an open handler
Dispatching ==
    /\ ~viewer.crashed
    /\ ~viewer.closed
    /\ Top.pc \in {"idle", "processEvents", "exec"}
    /\ Len(mstack) < MaxNest

\* input reaches the main window: no message box is open
InputAllowed ==
    /\ Dispatching
    /\ \A i \in 1..Len(mstack) : mstack[i].pc # "exec"

\* the window-modal QProgressDialog keeps input from the main window
WindowInput == InputAllowed /\ ~viewer.loading_dialog

CategoryInputs == {<<>>, <<32>>, NameX, CatY, NameZ}

GotoTexts == {<<>>, <<49>>, <<55>>}      \* "", "1", "7"

\* load_button.clicked / category_input.returnPressed
UserLoad ==
    /\ WindowInput
    /\ viewer.load_enabled
    /\ \E text \in CategoryInputs :
         /\ Strip(text) # <<>> => Created < MaxLoads
         /\ Set(load_category(Cur, text))

\* loading_dialog.canceled, or Escape while the dialog is open
UserCancel ==
    /\ InputAllowed
    /\ viewer.loading_dialog
    /\ Set(cancel_loading(Cur))

\* prev_button.clicked or the Left key
UserPrevious == WindowInput /\ Set(show_previous_image(Cur))

\* next_button.clicked or the Right key
UserNext == WindowInput /\ Set(show_next_image(Cur))

\* gotonumber.returnPressed / gotonumber_button.clicked
UserGoto ==
    /\ WindowInput
    /\ \E text \in GotoTexts : Set(show_image_bynumber(Cur, text))

\* the F5 key
UserRefresh == WindowInput /\ Set(refresh_current_image(Cur))

\* the user closes the main window
UserClose == WindowInput /\ Set(closeEvent(Cur))

\* A posted emission reaches its slot only while the connection's slot proxy
\* is enabled: QObject.disconnect() (line 590) disables the proxies of the
\* worker's signals, and a disabled proxy ignores emissions still queued.
DeliversStale(T, e) == TRUE

Delivers(T, e) == T.workers[e.w].connected

\* the event loop takes the oldest posted emission
Dispatch ==
    /\ Dispatching
    /\ posted # <<>>
    /\ LET e == Head(posted)
           T == [Cur EXCEPT !.posted = Tail(posted)]
       IN  IF ~Delivers(T, e)
           THEN Set(T)
           ELSE CASE e.slot = "on_loading_progress" -> Set(on_loading_progress(T, e.w))
                  [] e.slot = "on_images_loaded"    -> Set(on_images_loaded(T, e.w, e.arg))
                  [] e.slot = "on_loading_error"    -> Set(on_loading_error(T, e.w))
                  [] e.slot = "cleanup_thread"      -> Set(cleanup_thread(T))

\* processEvents returns and display_current_image goes on
DisplayResume ==
    /\ Top.pc = "processEvents"
    /\ \E info \in BOOLEAN : Set(display_finish(Pop(Cur), Top.image_name, info))

\* the user closes the message box; on_loading_error goes on to reset the
\* web view (lines 575-582), load_category returns (line 475)
Dismiss ==
    /\ Top.pc = "exec"
    /\ IF Top.h = "on_loading_error"
       THEN Set([Pop(Cur) EXCEPT !.viewer.web = CategoryErrorPage])
       ELSE Set(Pop(Cur))

\* QThread.wait() returns: run() has returned
WaitReturn ==
    /\ Top.pc = "wait"
    /\ ~MustWait(Cur)
    /\ Set(AfterCleanup(Pop(Cur), Top.h, Top.arg))

Next ==
    \/ UserLoad
    \/ UserCancel
    \/ UserPrevious
    \/ UserNext
    \/ UserGoto
    \/ UserRefresh
    \/ UserClose
    \/ Dispatch
    \/ DisplayResume
    \/ Dismiss
    \/ WaitReturn
    \/ \E w \in WorkerIds : WorkerRun0(w)
    \/ \E w \in WorkerIds : WorkerRun1(w)
    \/ \E w \in WorkerIds : WorkerFetch(w)

Spec == Init /\ [][Next]_vars

\* The worker thread runs on: run() takes its next step, and a request is
\* answered or raises.  The interactive thread's event loop takes the events
\* posted to it, processEvents and QThread.wait return.  Nothing is assumed
\* of the user.
LiveSpec ==
    /\ Spec
    /\ \A w \in WorkerIds :
         WF_vars(WorkerRun0(w)) /\ WF_vars(WorkerRun1(w)) /\ WF_vars(WorkerFetch(w))
    /\ WF_vars(Dispatch)
    /\ WF_vars(DisplayResume)
    /\ WF_vars(WaitReturn)


-----------------------------------------------------------------------------
(* Navigation alone: NavSpec *)

\* navigation actions one behaviour of NavSpec takes
MaxOps == 4

\* a list is loaded and image number i + 1 of it is shown; meta keeps the
\* actions taken since and the cursor after each
NavInit ==
    /\ backend \in BackendIds
    /\ workers = [w \in WorkerIds |-> NoWorkerRec]
    /\ posted = <<>>
    /\ mstack = <<>>
    /\ hist = [w \in WorkerIds |-> NoHist]
    /\ \E image_files \in {<<FileA, FileB>>, <<FileA, FileB, FileC>>} :
         \E i \in 0..(Len(image_files) - 1) :
           /\ viewer = [InitViewer EXCEPT
                          !.image_files = image_files,
                          !.current_index = i,
                          !.nav_enabled = TRUE,
                          !.web = [kind |-> "image", name |-> image_files[i + 1],
                                   index |-> i + 1, total |-> Len(image_files)]]
           /\ meta = [pc |-> "nav", ops |-> <<>>, trail |-> <<i>>]

\* a navigation handler has run to T, inside the processEvents call of its
\* display; no event arrives there, and the display completes
NavDone(T, op) ==
    /\ meta.pc = "nav"
    /\ Len(meta.ops) < MaxOps
    /\ \E info \in BOOLEAN :
         LET fr == T.mstack[Len(T.mstack)]
             T1 == display_finish(Pop(T), fr.image_name, info)
         IN  /\ viewer' = T1.viewer
             /\ mstack' = T1.mstack
             /\ meta' = [meta EXCEPT !.ops = Append(@, op),
                                     !.trail = Append(@, T1.viewer.current_index)]
    /\ UNCHANGED <<backend, workers, posted, hist>>

NavNext == NavDone(show_next_image(Cur), "next")

NavPrevious == NavDone(show_previous_image(Cur), "previous")

NavSteps == NavNext \/ NavPrevious

NavSpec == NavInit /\ [][NavSteps]_vars

-----------------------------------------------------------------------------
(* The display of one file: get_image_info and get_structured_data *)

NameA == <<65>> \o ExtJpg                         \* "A.jpg"

\* the key of the page in data["query"]["pages"] for a title: "-1" when the
\* wiki has no such page
PageId(title) == IF title = FileA THEN "7" ELSE "-1"

LicenseQid  == "Q20007257"
LicenseQid2 == "Q6938433"
AuthorQid   == "Q42"

\* the statements of the file's entity: the P275 statements in the order of
\* claims["P275"] (none when the key is absent), each without datavalue or
\* naming a license entity; P170 absent, without mainsnak, with a P2093
\* name qualifier, with an empty P2093 qualifier, without datavalue and
\* qualifier, or naming the creator entity.  A label "" is an entity that
\* has no English label; license_label is the label of LicenseQid, and
\* LicenseQid2 has the label "CC0 1.0".
Statements ==
    [p275 : {<<>>, <<"novalue">>, <<LicenseQid>>, <<LicenseQid, "novalue">>,
             <<LicenseQid, LicenseQid2>>, <<LicenseQid2, LicenseQid>>},
     p170 : {"absent", "nomainsnak", "name", "emptyqual", "novalue", "entity"},
     license_label : {"", "CC BY 4.0"},
     author_label : {"", "Alice"}]

\* what a request meets: an answer for the title or id asked, an exception
\* (transport, timeout, JSON), a payload without the expected keys, or an
\* answer that says the page or entity does not exist
Outcomes == {"ok", "raise", "malformed", "missing"}

\* the image names display_current_image may hold
MetaNames == {FileA, NameA, FileC}

None == [found |-> FALSE]

EmptyDict == [k \in {} |-> ""]

\* dict.get(k, default)
Get(d, k, default) == IF k \in DOMAIN d THEN d[k] ELSE default

\* get_image_info (lines 188-229)
get_image_info(image_name, outcome) ==
    LET name == IF StartsWith(image_name, PFile)
                THEN SubSeq(image_name, Len(PFile) + 1, Len(image_name))
                ELSE image_name
        title == PFile \o name
        page_id == IF outcome = "missing" THEN "-1" ELSE PageId(title)
    IN  IF outcome = "raise" THEN None              \* except Exception
        ELSE IF outcome = "malformed" THEN None     \* not pages
        ELSE IF page_id = "-1" THEN None
        ELSE [found |-> TRUE, title |-> title]

\* display_current_image at get_image_info (line 637), for image_name and an
\* entity with statements st
DisplayStart(image_name, st) ==
    [pc |-> "get_image_info", image_name |-> image_name, statements |-> st,
     image_info |-> None, license_name |-> "Unknown license",
     author_name |-> "", sd_failure |-> "none", answered |-> TRUE,
     license_i |-> 0,        \* the P275 statement whose label is requested
     page_title |-> <<>>,    \* params["titles"] of get_structured_data
     structured_data |-> EmptyDict,
     shown |-> [kind |-> "none", license |-> "", author |-> ""]]

\* lines 646-915: the page with the image, its license and author
Render(m, structured_data) ==
    [m EXCEPT !.pc = "done",
              !.structured_data = structured_data,
              !.shown = [kind |-> "image",
                         license |-> Get(structured_data, "license", "Unknown license"),
                         author |-> Get(structured_data, "author", "")]]

\* lines 639-640 and 917-948: the error page
RenderError(m) ==
    [m EXCEPT !.pc = "done",
              !.shown = [kind |-> "image_error", license |-> "", author |-> ""]]

\* what get_structured_data returns when a lookup fails: `return {}`
StructuredFailureKeepsPartial(m) ==
    [license |-> m.license_name, author |-> m.author_name]

StructuredFailure(m) == EmptyDict

Fail(m, why) == Render([m EXCEPT !.sd_failure = why], StructuredFailure(m))

\* lines 336-339
Return(m) == Render(m, [license |-> m.license_name, author |-> m.author_name])

\* the creator entity's label, or its id when it has none (line 332)
AuthorLabel(label) == IF label # "" THEN label ELSE AuthorQid

\* lines 309-320: the P170 statement, up to the request for the creator's label
author_part(m) ==
    CASE m.statements.p170 \in {"absent", "nomainsnak"} -> Return(m)
      [] m.statements.p170 = "name" -> Return([m EXCEPT !.author_name = "Bob"])
      [] m.statements.p170 = "emptyqual" -> Return(m)
      [] m.statements.p170 = "novalue" -> Fail(m, "author_keyerror") \* KeyError
      [] m.statements.p170 = "entity" -> [m EXCEPT !.pc = "author_label"]

\* lines 287-294: the loop over claims["P275"] from statement i, up to the
\* next request for a license label
RECURSIVE license_part(_, _)
license_part(m, i) ==
    IF i > Len(m.statements.p275) THEN author_part(m)
    ELSE IF m.statements.p275[i] = "novalue" THEN license_part(m, i + 1)
    ELSE [m EXCEPT !.pc = "license_label", !.license_i = i]

\* line 308: license_name after the label of one more statement was resolved
LicenseAfterKeepsFirst(license_name, license_label) ==
    IF license_name = "Unknown license" THEN license_label ELSE license_name

LicenseAfter(license_name, license_label) == license_label

Answered(m, outcome) == [m EXCEPT !.answered = @ /\ outcome = "ok"]

StepMeta(m) == meta' = m /\ UNCHANGED <<backend, viewer, workers, posted, mstack, hist>>

\* lines 637-640
MetaImageInfo ==
    /\ meta.pc = "get_image_info"
    /\ \E outcome \in Outcomes :
         LET image_info == get_image_info(meta.image_name, outcome)
             m == [Answered(meta, outcome) EXCEPT !.image_info = image_info]
         IN  IF ~image_info.found THEN StepMeta(RenderError(m))
             ELSE StepMeta([m EXCEPT !.pc = "page"])

\* get_structured_data, the request for the page id (lines 241-259)
MetaPage ==
    /\ meta.pc = "page"
    /\ \E outcome \in Outcomes :
         LET title == PFile \o meta.image_name
             m == [Answered(meta, outcome) EXCEPT !.page_title = title]
             page_id == IF outcome = "missing" THEN "-1" ELSE PageId(title)
         IN  IF outcome = "raise" THEN StepMeta(Fail(m, "exception"))
             ELSE IF outcome = "malformed" THEN StepMeta(Fail(m, "malformed"))
             ELSE IF page_id = "-1" THEN StepMeta(Fail(m, "missing_page"))
             ELSE StepMeta([m EXCEPT !.pc = "entity"])

\* the request for the entity's statements, and the P275 statements up to the
\* first request for a license label (lines 262-294)
MetaEntity ==
    /\ meta.pc = "entity"
    /\ \E outcome \in Outcomes :
         LET m == Answered(meta, outcome)
         IN  IF outcome = "raise" THEN StepMeta(Fail(m, "exception"))
             ELSE IF outcome = "malformed" THEN StepMeta(Fail(m, "malformed"))
             ELSE IF outcome = "missing" THEN StepMeta(Fail(m, "missing_entity"))
             ELSE StepMeta(license_part(m, 1))

\* the request for the label of one license (lines 303-308), then the
\* statements after it
MetaLicense ==
    /\ meta.pc = "license_label"
    /\ \E outcome \in Outcomes :
         LET m == Answered(meta, outcome)
             license_qid == m.statements.p275[m.license_i]
             label == IF license_qid = LicenseQid THEN m.statements.license_label
                      ELSE "CC0 1.0"
             license_label == IF outcome = "ok" /\ label # "" THEN label
                              ELSE license_qid
         IN  IF outcome = "raise" THEN StepMeta(Fail(m, "exception"))
             ELSE StepMeta(license_part(
                      [m EXCEPT !.license_name = LicenseAfter(@, license_label)],
                      m.license_i + 1))

\* the request for the creator's label (lines 329-334)
MetaAuthor ==
    /\ meta.pc = "author_label"
    /\ \E outcome \in Outcomes :
         LET m == Answered(meta, outcome)
             author_label == AuthorLabel(IF outcome = "ok"
                                         THEN m.statements.author_label ELSE "")
         IN  IF outcome = "raise" THEN StepMeta(Fail(m, "author_request"))
             ELSE StepMeta(Return([m EXCEPT !.author_name =
                                               IF @ = "" THEN author_label ELSE @]))

MetaInit ==
    /\ backend \in BackendIds
    /\ viewer = InitViewer
    /\ workers = [w \in WorkerIds |-> NoWorkerRec]
    /\ posted = <<>>
    /\ mstack = <<>>
    /\ hist = [w \in WorkerIds |-> NoHist]
    /\ \E image_name \in MetaNames, st \in Statements :
         meta = DisplayStart(image_name, st)

MetaNext ==
    \/ MetaImageInfo
    \/ MetaPage
    \/ MetaEntity
    \/ MetaLicense
    \/ MetaAuthor

MetaSpec == MetaInit /\ [][MetaNext]_vars


-----------------------------------------------------------------------------
(* Properties *)

TerminalSlots == {"on_images_loaded", "on_loading_error"}

\* the event loop hands the oldest posted emission to its slot in this step
SlotRuns == Dispatch /\ Delivers(Cur, Head(posted))

PendingOf(w, slots) ==
    \E i \in 1..Len(posted) : posted[i].w = w /\ posted[i].slot \in slots

StrictlyAscending(s) == \A i \in 1..(Len(s) - 1) : StrLess(s[i], s[i + 1])

NoDuplicates(s) == \A i, j \in 1..Len(s) : i # j => s[i] # s[j]

\* C1: once cancel_loading has run for a request whose terminal event was
\* not yet handled, neither on_images_loaded nor on_loading_error runs for
\* that request.
C1_NoTerminalAfterCancel ==
    [][(SlotRuns /\ Head(posted).slot \in TerminalSlots)
          => hist[Head(posted).w] # "cancelled"]_vars

\* the cancel came while the request's terminal emission was already queued
C1_Witness ==
    \E w \in WorkerIds : hist[w] = "cancelled" /\ PendingOf(w, TerminalSlots)

\* the members of all pages of a category
AllMembers(b, cat) ==
    LET p == Pages(b, cat)
    IN  UNION {SeqSet(p[k]) : k \in 1..Len(p)}

\* the qualifying files of the categories within d subcategory steps of cat
RECURSIVE FilesWithin(_, _, _)
FilesWithin(b, cat, d) ==
    LET ms == AllMembers(b, cat)
        own == {m.title : m \in {x \in ms : x.ns = NsFile /\ Accepts(x.title)}}
        subs == {m.title : m \in {x \in ms : x.ns = NsSubcat}}
    IN  IF d = 0 THEN own
        ELSE own \cup UNION {FilesWithin(b, c, d - 1) : c \in subs}

\* C2: get_commons_files(category, depth) returns, also on a category graph
\* with a cycle, and the list it returns holds each qualifying file reached
\* exactly once.
C2_TerminatesEachOnce ==
    <>(/\ workers[1].st = "returned"
       /\ NoDuplicates(workers[1].ret)
       /\ SeqSet(workers[1].ret) =
            FilesWithin(backend, Frame(workers[1].category_name, 0).cmtitle,
                        workers[1].depth))

\* the call has gone round the cycle X -> Y -> X and returned
C2_Witness ==
    /\ workers[1].st = "returned"
    /\ backend = 1
    /\ workers[1].depth = 2
    /\ Len(workers[1].ret) = 2

\* C3: the list the finished signal carries is in ascending order without a
\* duplicate title.
C3_FinishedSortedUnique ==
    \A i \in 1..Len(posted) :
        posted[i].sig = "finished" => StrictlyAscending(posted[i].arg)

\* pages A, B and B, with a subcategory that holds A again, give [A, B]
C3_Witness ==
    /\ backend = 1
    /\ \E i \in 1..Len(posted) :
         /\ posted[i].slot = "on_images_loaded"
         /\ posted[i].arg = <<FileA, FileB>>

\* C4: a listing with no qualifying file never ends with a finished signal
\* carrying an empty list.
C4_EmptyIsError ==
    \A i \in 1..Len(posted) : posted[i].sig = "finished" => posted[i].arg # <<>>

\* C5: on a list of length N >= 1 and an in-range cursor i, show_next_image
\* moves the cursor to i + 1, to 0 from N - 1; show_previous_image moves it
\* to i - 1, to N - 1 from 0.
C5_Wraparound ==
    [][LET n == Len(viewer.image_files)
           i == viewer.current_index
       IN  (n >= 1 /\ i >= 0 /\ i < n) =>
             /\ UserNext => viewer'.current_index = IF i = n - 1 THEN 0 ELSE i + 1
             /\ UserPrevious => viewer'.current_index = IF i = 0 THEN n - 1 ELSE i - 1
      ]_vars

\* the page still shows the last image; a navigation step has moved the
\* cursor round to the first, which is about to be displayed
C5_Witness ==
    /\ Len(viewer.image_files) = 2
    /\ viewer.web = [kind |-> "image", name |-> viewer.image_files[2],
                     index |-> 2, total |-> 2]
    /\ viewer.current_index = 0
    /\ Len(mstack) = 1
    /\ Top.pc = "processEvents"
    /\ Top.image_name = viewer.image_files[1]

\* C6: show_image_bynumber with a number outside the list leaves
\* current_index unchanged and raises nothing.
C6_GotoOutOfRangeKeepsCursor ==
    [][\A text \in GotoTexts :
         (/\ WindowInput
          /\ IsNumber(text)
          /\ ParseInt(text) >= Len(viewer.image_files)
          /\ Set(show_image_bynumber(Cur, text)))
         => (viewer'.current_index = viewer.current_index /\ ~viewer'.crashed)
      ]_vars

\* C7: at most one worker is executing run(), and every worker other than
\* the viewer's current one is stopped with its thread not running: a prior
\* request is cancelled and its thread finished before a new worker starts.
C7_OneListingInFlight ==
    /\ Cardinality({w \in WorkerIds : Executing(workers[w])}) <= 1
    /\ \A w \in WorkerIds :
         w # viewer.worker_thread =>
           ~IsRunning(workers[w]) /\ ~workers[w].is_running

\* load_category came while the thread of request 1 was still running (its
\* cleanup_thread emission is still queued) and tore it down before worker 2
C7_Witness ==
    /\ hist[1] = "finished"
    /\ workers[1].st = "deleted"
    /\ workers[2].st = "r0"
    /\ PendingOf(1, {"cleanup_thread"})

\* C8: no progress handler of a request runs after its terminal handler, and
\* when the terminal handler runs no progress event of the request is left
\* to be handled.
C8_ProgressBeforeTerminal ==
    [][SlotRuns =>
         LET e == Head(posted)
         IN  /\ e.slot = "on_loading_progress" => hist[e.w] \notin {"finished", "error"}
             /\ e.slot \in TerminalSlots =>
                  \A i \in 2..Len(posted) :
                      posted[i].w = e.w => posted[i].slot # "on_loading_progress"
      ]_vars

\* the finished signal of request 1 has been handled, after its progress
\* events; only its cleanup_thread emission is left
C8_Witness ==
    /\ hist[1] = "finished"
    /\ Len(posted) = 1
    /\ posted[1].w = 1
    /\ posted[1].slot = "cleanup_thread"

\* C9: the worker issues no network request once stop() has cleared
\* _is_running.
C9_NoRequestAfterStop ==
    [][\A w \in WorkerIds : WorkerFetch(w) => workers[w].is_running]_vars

\* C10: no handler begins on the interactive thread while another handler
\* is part-way through.
C10_OneHandlerAtATime ==
    [][(UserLoad \/ UserCancel \/ UserPrevious \/ UserNext \/ UserGoto
          \/ UserRefresh \/ SlotRuns)
         => mstack = <<>>]_vars

\* both references are None, and one more cleanup_thread changes nothing
CleanedUp(T) ==
    /\ T.viewer.worker = NoWorker
    /\ T.viewer.worker_thread = NoWorker
    /\ cleanup_thread(T) = T

\* C11: whenever cleanup_thread runs to its end, be it called as a slot, by
\* cancel_loading or by closeEvent, before or after the worker's completion,
\* it raises nothing, leaves worker and worker_thread None, and a further
\* invocation leaves that state as it is.
C11_CleanupIdempotent ==
    /\ (Top.pc # "wait" /\ ~MustWait(cleanup_begin(Cur))) =>
          LET T1 == cleanup_thread(Cur)
          IN  CleanedUp(T1) /\ T1.viewer.crashed = viewer.crashed
    /\ (Top.pc = "wait" /\ ~MustWait(Cur)) =>
          LET T1 == cleanup_end(Pop(Cur))
          IN  CleanedUp(T1) /\ T1.viewer.crashed = viewer.crashed
    /\ viewer.closed => CleanedUp(Cur)

\* closeEvent tore the request down while the cleanup_thread emission of its
\* natural completion was still queued
C11_Witness ==
    /\ viewer.closed
    /\ \E w \in WorkerIds :
         workers[w].st = "deleted" /\ PendingOf(w, {"cleanup_thread"})

\* run() of request w left get_commons_files by an exception
Failed(w) == workers[w].st = "done" /\ workers[w].stack # <<>>

\* C12: a listing request that failed emits no finished signal, and the
\* viewer's image_files takes nothing of what the request had fetched: it
\* stays the empty list load_category left.
C12_NoPartialResult ==
    \A w \in WorkerIds :
        Failed(w) =>
            /\ \A i \in 1..Len(posted) :
                 posted[i].w = w => posted[i].sig # "finished"
            /\ hist[w] # "finished"
            /\ viewer.image_files = <<>>

\* the request failed after it had gathered titles, and its error has been
\* handled and the message box closed
C12_Witness ==
    \E w \in WorkerIds :
        /\ Failed(w)
        /\ Gathered(workers[w].stack) # <<>>
        /\ hist[w] = "error"
        /\ mstack = <<>>

SameList == viewer'.image_files = viewer.image_files

SameCursor == viewer'.current_index = viewer.current_index

\* the web view shows the error page of a failed display
DisplayFailed == viewer.web.kind \in {"image_error", "image_error_generic"}

\* C13: display_current_image, with get_image_info answering or not, leaves
\* image_files and current_index as they are, and after a failed display
\* show_next_image and show_previous_image move the cursor by the same rule
\* as after a successful one.
C13_DisplayKeepsListAndCursor ==
    [][LET n == Len(viewer.image_files)
           i == viewer.current_index
       IN  /\ (DisplayResume \/ UserRefresh) => (SameList /\ SameCursor)
           /\ (DisplayFailed /\ n > 1) =>
                /\ UserNext => (SameList /\ viewer'.current_index = (i + 1) % n)
                /\ UserPrevious => (SameList /\ viewer'.current_index = (i - 1) % n)
      ]_vars

\* the display of the first image failed, and a navigation step has moved
\* the cursor on to the second, which is about to be displayed
C13_Witness ==
    /\ Len(viewer.image_files) = 2
    /\ viewer.web = [kind |-> "image_error", name |-> viewer.image_files[1],
                     index |-> 0, total |-> 0]
    /\ viewer.current_index = 1
    /\ Len(mstack) = 1
    /\ Top.pc = "processEvents"
    /\ Top.image_name = viewer.image_files[2]

\* C14: image_files and current_index change only when on_images_loaded
\* installs a fresh list, with the cursor at 0, or when a navigation action
\* moves the cursor; starting or cancelling a load, a listing error and a
\* progress event leave both as they are.
C14_ListAndCursorFrame ==
    [][~(SameList /\ SameCursor) =>
         \/ /\ SlotRuns
            /\ Head(posted).slot = "on_images_loaded"
            /\ viewer'.current_index = 0
         \/ /\ UserNext \/ UserPrevious \/ UserGoto
            /\ SameList
      ]_vars

\* C15: the set of titles get_commons_files returns from a backend that
\* answers in several continuation pages is the set it returns from the
\* backend that holds the same members and answers in one page.
C15_PaginationTransparent ==
    workers[1].st = "returned" =>
        SeqSet(workers[1].ret) =
            SeqSet(Listing(workers[1].category_name, workers[1].depth,
                           Unpaged(backend)))

\* a listing assembled from the two pages of category X on backend 3
C15_Witness ==
    /\ workers[1].st = "returned"
    /\ backend = 3
    /\ workers[1].category_name = CatX
    /\ SeqSet(workers[1].ret) = {FileA, FileC}

\* C16: the list a request delivers is fixed by its category name, the depth
\* and the backend: it is the sorted list of what get_commons_files returns,
\* whatever order list(set()) took in this request, so two requests with the
\* same inputs deliver the same list.
C16_SameInputsSameList ==
    \A i \in 1..Len(posted) :
        (posted[i].sig = "finished" /\ workers[posted[i].w].st = "done") =>
            posted[i].arg =
                SortedOfSet(Listing(workers[posted[i].w].category_name,
                                    workers[posted[i].w].depth, backend))

\* the second request for category X on backend 3 delivers [A, C], while the
\* page still shows an image of the two the first request for X delivered
C16_Witness ==
    /\ backend = 3
    /\ viewer.web.kind = "image"
    /\ viewer.web.total = 2
    /\ workers[2].st = "done"
    /\ \E i \in 1..Len(posted) :
         /\ posted[i].w = 2
         /\ posted[i].slot = "on_images_loaded"
         /\ posted[i].arg = <<FileA, FileC>>

DefaultsShown ==
    /\ meta.shown.kind = "image"
    /\ meta.shown.license = "Unknown license"
    /\ meta.shown.author = ""

C18_UnresolvedAuthorIsEmpty ==
    (/\ meta.pc = "done"
     /\ meta.image_name = NameA
     /\ meta.answered
     /\ meta.statements.p275 = <<LicenseQid>>
     /\ meta.statements.license_label # ""
     /\ meta.statements.p170 = "entity"
     /\ meta.statements.author_label = "")
    => /\ Get(meta.structured_data, "author", "none") = ""
       /\ Get(meta.structured_data, "license", "") = meta.statements.license_label

\* the emissions of w's error signal waiting for on_loading_error
ErrorEvents(q, w) ==
    Cardinality({i \in 1..Len(q) : q[i].w = w /\ q[i].slot = "on_loading_error"})

\* a request of w's listing fails in this step
FailStep(w) ==
    /\ WorkerFetch(w)
    /\ workers'[w].st = "done"
    /\ workers'[w].stack # <<>>

\* a failed listing is over: no request is issued again for it
NoRetry(w) == Failed(w) => workers'[w].st \in {"done", "deleted"}

\* C19 as stated: when a request of a listing fails the worker emits one
\* error signal with the exception's text and no finished signal, and issues
\* no request again.
C19_FailureEmitsOneError ==
    [][\A w \in WorkerIds :
         /\ FailStep(w) =>
              /\ ErrorEvents(posted', w) = 1
              /\ \A i \in 1..Len(posted') :
                   posted'[i].w = w =>
                     /\ posted'[i].sig # "finished"
                     /\ posted'[i].sig = "error" =>
                          posted'[i].arg \in {"Network error", "Error loading category"}
         /\ NoRetry(w)
      ]_vars

\* C19 amended: the same while stop() has not cleared _is_running; once it
\* has, a failing request emits nothing.
C19_FailureEmitsOneErrorUnlessStopped ==
    [][\A w \in WorkerIds :
         /\ FailStep(w) =>
              /\ ErrorEvents(posted', w) = IF workers[w].is_running THEN 1 ELSE 0
              /\ \A i \in 1..Len(posted') :
                   posted'[i].w = w =>
                     /\ posted'[i].sig # "finished"
                     /\ posted'[i].sig = "error" =>
                          posted'[i].arg \in {"Network error", "Error loading category"}
         /\ NoRetry(w)
      ]_vars

\* a request failed on its second page while the listing was not cancelled:
\* its one error emission is queued
C19_Witness ==
    \E w \in WorkerIds :
        /\ Failed(w)
        /\ workers[w].is_running
        /\ Gathered(workers[w].stack) # <<>>
        /\ ErrorEvents(posted, w) = 1

\* a text that is empty or holds blanks only
IsBlank(text) == \A i \in 1..Len(text) : text[i] = 32

\* C20: load_category with an empty or blank category name opens the
\* warning box and changes nothing else: no worker, no request, the same
\* image_files, current_index, current_category and enabled controls; closing
\* the box changes nothing either.
C20_BlankCategoryOnlyWarns ==
    [][/\ \A text \in CategoryInputs :
            (IsBlank(text) /\ WindowInput /\ viewer.load_enabled
               /\ Set(load_category(Cur, text)))
            => /\ viewer' = viewer
               /\ workers' = workers
               /\ posted' = posted
               /\ Len(mstack') = Len(mstack) + 1
               /\ mstack'[Len(mstack')].h = "load_category"
               /\ mstack'[Len(mstack')].pc = "exec"
       /\ (Dismiss /\ Top.h = "load_category") =>
            (viewer' = viewer /\ workers' = workers /\ posted' = posted)
      ]_vars

\* the warning box is open over a loaded list, which is still in place
C20_Witness ==
    /\ Top.pc = "exec"
    /\ Top.h = "load_category"
    /\ Len(viewer.image_files) = 2
    /\ viewer.current_index = 1
    /\ viewer.current_category = NameX

-----------------------------------------------------------------------------
(* The members get_commons_files accepts *)

\* the members of the categories within d subcategory steps of cat
RECURSIVE MembersWithin(_, _, _)
MembersWithin(b, cat, d) ==
    LET ms == AllMembers(b, cat)
    IN  IF d = 0 THEN ms
        ELSE ms \cup UNION {MembersWithin(b, m.title, d - 1) :
                               m \in {x \in ms : x.ns = NsSubcat}}

\* a member of the file namespace whose title, letter case aside, ends with
\* one of the ten extensions
Qualifies(m) ==
    /\ m.ns = 6
    /\ \E e \in ImageExts :
         /\ Len(m.title) >= Len(e)
         /\ \A j \in 1..Len(e) :
              LowerChar(m.title[Len(m.title) - Len(e) + j]) = e[j]

\* C21: of the members get_commons_files is given, the titles it returns are
\* those of the members in namespace 6 whose title ends, compared without
\* regard to letter case, with one of the ten image extensions: every such
\* member of the named category is returned, and no member of another
\* namespace or with another extension is.
C21_AcceptsImageFilesOnly ==
    workers[1].st = "returned" =>
        LET cat == Frame(workers[1].category_name, 0).cmtitle
            seen == MembersWithin(backend, cat, workers[1].depth)
        IN  /\ \A m \in AllMembers(backend, cat) :
                 Qualifies(m) => m.title \in SeqSet(workers[1].ret)
            /\ \A m \in seen :
                 m.title \in SeqSet(workers[1].ret) => Qualifies(m)
            /\ SeqSet(workers[1].ret) \subseteq {m.title : m \in seen}

\* category X of backend 4 was listed: "File:B.JPG" was accepted, while
\* "File:D.txt" and the subcategory "Category:Q.png" were not
C21_Witness ==
    /\ workers[1].st = "returned"
    /\ backend = 4
    /\ workers[1].category_name = CatX
    /\ workers[1].depth = 1
    /\ workers[1].ret = <<FileB>>

-----------------------------------------------------------------------------
(* The depth of get_commons_files *)

\* C22: get_commons_files(category, d) returns the qualifying files of the
\* categories at most d subcategory steps from the named one.  The call for
\* a subcategory k steps away is made with depth d - k and never with a
\* negative depth, so with d = 0 the only category requested is the named
\* one.
C22_DepthBoundsRecursion ==
    LET wr == workers[1]
        cat == Frame(wr.category_name, 0).cmtitle
    IN  /\ wr.st = "fetch" =>
              /\ \A k \in 1..Len(wr.stack) :
                    /\ wr.stack[k].depth = wr.depth - (k - 1)
                    /\ wr.stack[k].depth >= 0
              /\ wr.stack[1].cmtitle = cat
              /\ wr.depth = 0 => Len(wr.stack) = 1
        /\ wr.st = "returned" =>
              SeqSet(wr.ret) =
                  {m.title : m \in {x \in MembersWithin(backend, cat, wr.depth) :
                                      Qualifies(x)}}

\* category Y of backend 1 was listed with depth 0: its own "File:A.jpg" is
\* returned, "File:B.JPG" of its subcategory X is not
C22_Witness ==
    /\ workers[1].st = "returned"
    /\ backend = 1
    /\ workers[1].category_name = CatY
    /\ workers[1].depth = 0
    /\ workers[1].ret = <<FileA>>
    /\ S(CatX) \in AllMembers(backend, CatY)
    /\ F(FileB) \in AllMembers(backend, CatX)

-----------------------------------------------------------------------------
(* The license of a file with several license statements *)

\* the P275 statements that carry a value, in processing order
LicenseValues(st) == SelectSeq(st.p275, LAMBDA x : x # "novalue")

\* C23: when every request was answered and get_structured_data returned its
\* result, the license in it is the English label of the entity the last
\* P275 statement with a value names, that entity's identifier when it has no
\* English label, and "Unknown license" when no P275 statement has a value.
C23_LastLicenseWins ==
    (/\ meta.pc = "done"
     /\ meta.image_info.found
     /\ meta.sd_failure = "none"
     /\ meta.answered)
    => LET vals == LicenseValues(meta.statements)
           last == vals[Len(vals)]
           label == IF last = LicenseQid2 THEN "CC0 1.0"
                    ELSE meta.statements.license_label
           license == Get(meta.structured_data, "license", "none")
       IN  IF vals = <<>> THEN license = "Unknown license"
           ELSE IF label # "" THEN license = label
           ELSE license = last

\* of two license statements the second names an entity without English
\* label: its identifier is returned, not the label of the first
C23_Witness ==
    /\ meta.pc = "done"
    /\ meta.answered
    /\ meta.sd_failure = "none"
    /\ meta.statements.p275 = <<LicenseQid2, LicenseQid>>
    /\ meta.statements.license_label = ""
    /\ Get(meta.structured_data, "license", "none") = LicenseQid

-----------------------------------------------------------------------------
(* The titles the two lookups of a display ask for *)

\* C24: for a title as the lister delivers it (a title of the file
\* namespace, beginning with "File:"), get_structured_data asks the wiki for
\* the page title get_image_info asked for.
C24_SameTitleQueried ==
    (/\ StartsWith(meta.image_name, PFile)
     /\ meta.image_info.found
     /\ meta.page_title # <<>>)
    => meta.page_title = meta.image_info.title

-----------------------------------------------------------------------------
(* The cursor *)

\* C25: in every reachable state the cursor is a position of the list:
\* current_index is 0 while image_files is empty, and otherwise
\* 0 <= current_index < len(image_files).
C25_CursorValid ==
    IF viewer.image_files = <<>>
    THEN viewer.current_index = 0
    ELSE viewer.current_index >= 0
         /\ viewer.current_index < Len(viewer.image_files)

-----------------------------------------------------------------------------
(* Events of an earlier request and the worker of a later one *)

\* C26: an emission that can still reach on_images_loaded, on_loading_error
\* or cleanup_thread belongs to the viewer's current worker, and no request
\* was started after it: the handlers of an earlier request never act on the
\* worker of a later one, and never install the earlier list once the later
\* request has started.
C26_EarlierHandlersSpareLaterWorker ==
    \A i \in 1..Len(posted) :
        (/\ posted[i].slot \in TerminalSlots \cup {"cleanup_thread"}
         /\ Delivers(Cur, posted[i]))
        => /\ viewer.worker = posted[i].w
           /\ \A w \in WorkerIds : w > posted[i].w => workers[w].st = "none"

\* the finished emission of request 1, cancelled, is still queued while the
\* worker of request 2 runs
C26_Witness ==
    /\ hist[1] = "cancelled"
    /\ PendingOf(1, {"on_images_loaded"})
    /\ PendingOf(1, {"cleanup_thread"})
    /\ viewer.worker = 2
    /\ Executing(workers[2])

-----------------------------------------------------------------------------
(* The page display_current_image renders *)

\* C27: a page display_current_image renders shows the title that stands in
\* image_files at the position its "Image i of N" text and the counter label
\* name, with N the length of the list, also when other handlers ran during
\* its processEvents call.
C27_PageMatchesCursor ==
    [][(DisplayResume /\ viewer'.web.kind = "image")
          => /\ viewer'.web.total = Len(viewer'.image_files)
             /\ viewer'.web.index \in 1..Len(viewer'.image_files)
             /\ viewer'.image_files[viewer'.web.index] = viewer'.web.name
      ]_vars

-----------------------------------------------------------------------------
(* The license when the author cannot be resolved *)

\* C28: when get_structured_data fails while it resolves the author (a P170
\* statement without value, or a request for the creator's label that
\* raises), the license it returns is still the one resolved from the P275
\* statements.
C28_AuthorFailureKeepsLicense ==
    (/\ meta.pc = "done"
     /\ meta.sd_failure \in {"author_keyerror", "author_request"})
    => Get(meta.structured_data, "license", "Unknown license")
         = meta.license_name

-----------------------------------------------------------------------------
(* Navigation forth and back *)

\* C29: on a loaded list of length N >= 2 with the cursor in range,
\* show_next_image followed by show_previous_image, and show_previous_image
\* followed by show_next_image, leave the cursor where it was, and so do N
\* show_next_image actions in a row.
C29_NavigationInverse ==
    meta.pc = "nav" =>
        LET n == Len(viewer.image_files)
            ops == meta.ops
            trail == meta.trail       \* trail[k] is the cursor before ops[k]
        IN  /\ \A k \in 1..(Len(ops) - 1) :
                 ({ops[k], ops[k + 1]} = {"next", "previous"})
                     => trail[k + 2] = trail[k]
            /\ \A k \in 1..(Len(ops) - n + 1) :
                 (\A j \in k..(k + n - 1) : ops[j] = "next")
                     => trail[k + n] = trail[k]

\* on a list of three, from the first image: back to the last, forth to the
\* first again, then three times forth round the list
C29_Witness ==
    /\ meta.pc = "nav"
    /\ Len(viewer.image_files) = 3
    /\ meta.ops = <<"previous", "next", "next", "next">>
    /\ meta.trail = <<0, 2, 0, 1, 2>>
    /\ viewer.current_index = 2
    /\ mstack = <<>>

-----------------------------------------------------------------------------
(* The loading controls *)

=============================================================================
